---- MODULE Spec2Model ----
(***************************************************************************)
(* CVbuilder: the single-document pipeline (cvbuilder.py) and the batch    *)
(* orchestrator (generate_samples.py).                                     *)
(*                                                                         *)
(* Strings whose characters matter (file names, section ids) are sequences *)
(* of one-character strings; dictionary keys and tags are TLA+ strings.    *)
(***************************************************************************)
EXTENDS Integers, Sequences, FiniteSets, TLC

(***************************************************************************)
(* Bounds of the model.                                                    *)
(***************************************************************************)
MaxSections == 2
MaxData == 2
MaxTemplates == 2

(***************************************************************************)
(* Characters and Python's string order (by code point).                   *)
(***************************************************************************)
Ord(c) ==
    CASE c = "." -> 46
      [] c = "0" -> 48
      [] c = "1" -> 49
      [] c = "_" -> 95
      [] c = "a" -> 97
      [] c = "b" -> 98
      [] c = "d" -> 100
      [] c = "e" -> 101
      [] c = "f" -> 102
      [] c = "g" -> 103
      [] c = "h" -> 104
      [] c = "j" -> 106
      [] c = "l" -> 108
      [] c = "m" -> 109
      [] c = "n" -> 110
      [] c = "o" -> 111
      [] c = "p" -> 112
      [] c = "r" -> 114
      [] c = "s" -> 115
      [] c = "t" -> 116
      [] c = "u" -> 117
      [] c = "x" -> 120

\* str.__lt__: s < t, lexicographic on code points, a proper prefix is smaller.
StrLess(s, t) ==
    \E k \in 1..Len(t) :
        /\ k <= Len(s) + 1
        /\ \A i \in 1..(k - 1) : s[i] = t[i]
        /\ \/ k = Len(s) + 1
           \/ Ord(s[k]) < Ord(t[k])

(***************************************************************************)
(* pathlib: a path inside one directory is its file name.                  *)
(***************************************************************************)
DotJson == <<".", "j", "s", "o", "n">>
DotHtml == <<".", "h", "t", "m", "l">>
DotPdf == <<".", "p", "d", "f">>
DotPng == <<".", "p", "n", "g">>
UnderscoreResume == <<"_", "r", "e", "s", "u", "m", "e">>

\* The index of the last "." of name, 0 when there is none (str.rfind + 1).
LastDot(name) ==
    IF \E i \in 1..Len(name) : name[i] = "."
    THEN CHOOSE i \in 1..Len(name) :
            name[i] = "." /\ \A k \in (i + 1)..Len(name) : name[k] # "."
    ELSE 0

\* PurePath.suffix: from the last dot, unless the dot leads or ends the name.
PathSuffix(name) ==
    IF 1 < LastDot(name) /\ LastDot(name) < Len(name)
    THEN SubSeq(name, LastDot(name), Len(name))
    ELSE <<>>

\* PurePath.stem: the name without its suffix.
PathStem(name) ==
    IF 1 < LastDot(name) /\ LastDot(name) < Len(name)
    THEN SubSeq(name, 1, LastDot(name) - 1)
    ELSE name

\* PurePath.with_suffix(suffix)
WithSuffix(name, suffix) == PathStem(name) \o suffix

\* PurePath.__lt__ for two paths of one directory: the order of the names.
PathLess(p, q) == StrLess(p, q)

\* Path.glob("*<suffix>"): the entries of a directory whose name ends in suffix.
EndsWith(name, suffix) ==
    /\ Len(name) >= Len(suffix)
    /\ SubSeq(name, Len(name) - Len(suffix) + 1, Len(name)) = suffix

GlobMatches(dir, suffix) == {n \in DOMAIN dir : EndsWith(n, suffix)}

\* The lists a glob may return: the matching names in any order.
Orderings(S) ==
    {f \in [1..Cardinality(S) -> S] : \A i, j \in 1..Cardinality(S) : i # j => f[i] # f[j]}

(***************************************************************************)
(* JSON values, tagged with their JSON type.                               *)
(***************************************************************************)
JStr(s) == [t |-> "string", v |-> s]
JNum(n) == [t |-> "number", v |-> n]
JArr(a) == [t |-> "array", v |-> a]
JObj(o) == [t |-> "object", v |-> o]

\* Directory entries: a directory, or a file with its text. A JSON text either
\* parses to a value or makes json.load raise JSONDecodeError.
DirEntry == [kind |-> "dir"]
JsonFile(value) == [kind |-> "file", parses |-> TRUE, value |-> value]
GarbageFile == [kind |-> "file", parses |-> FALSE]
TemplateFile(behaviour) == [kind |-> "file", template |-> behaviour]

(***************************************************************************)
(* RESUME_SCHEMA, as jsonschema.validate decides it.                       *)
(***************************************************************************)
IsString(x) == x.t = "string"
IsNonEmptyString(x) == x.t = "string" /\ Len(x.v) >= 1
IsArray(x) == x.t = "array"
Has(x, key) == key \in DOMAIN x.v

ContentItemFields == {"name", "period", "title", "bullets"}
ContactTypes == {<<"t", "e", "x", "t">>, <<"e", "m", "a", "i", "l">>, <<"l", "i", "n", "k">>}

\* Mutant: the content item schema lacks "additionalProperties": False.
ValidContentItem_Open(x) ==
    /\ x.t = "object"
    /\ Has(x, "name")
    /\ IsNonEmptyString(x.v["name"])
    /\ Has(x, "period") => IsString(x.v["period"])
    /\ Has(x, "title") => IsString(x.v["title"])
    /\ Has(x, "bullets") =>
          /\ IsArray(x.v["bullets"])
          /\ \A i \in 1..Len(x.v["bullets"].v) : IsString(x.v["bullets"].v[i])

\* RESUME_SCHEMA.properties.sections.items.properties.content.items
ValidContentItem(x) ==
    /\ x.t = "object"
    /\ Has(x, "name")
    /\ IsNonEmptyString(x.v["name"])
    /\ Has(x, "period") => IsString(x.v["period"])
    /\ Has(x, "title") => IsString(x.v["title"])
    /\ Has(x, "bullets") =>
          /\ IsArray(x.v["bullets"])
          /\ \A i \in 1..Len(x.v["bullets"].v) : IsString(x.v["bullets"].v[i])
    /\ DOMAIN x.v \subseteq ContentItemFields

\* RESUME_SCHEMA.properties.sections.items
ValidSection(x) ==
    /\ x.t = "object"
    /\ Has(x, "id") /\ Has(x, "label") /\ Has(x, "content")
    /\ IsString(x.v["id"])
    /\ IsNonEmptyString(x.v["label"])
    /\ IsArray(x.v["content"])
    /\ \A i \in 1..Len(x.v["content"].v) : ValidContentItem(x.v["content"].v[i])

\* Mutant: the contact type has no "enum".
ValidContact_AnyType(x) ==
    /\ x.t = "object"
    /\ Has(x, "type") /\ Has(x, "info")
    /\ IsString(x.v["type"])
    /\ IsNonEmptyString(x.v["info"])

\* RESUME_SCHEMA.properties.contact_info.items
ValidContact(x) ==
    /\ x.t = "object"
    /\ Has(x, "type") /\ Has(x, "info")
    /\ IsString(x.v["type"]) /\ x.v["type"].v \in ContactTypes
    /\ IsNonEmptyString(x.v["info"])

\* RESUME_SCHEMA
ValidResume(x) ==
    /\ x.t = "object"
    /\ Has(x, "name") /\ Has(x, "contact_info") /\ Has(x, "sections")
    /\ IsNonEmptyString(x.v["name"])
    /\ Has(x, "summary") => IsString(x.v["summary"])
    /\ IsArray(x.v["contact_info"])
    /\ \A i \in 1..Len(x.v["contact_info"].v) : ValidContact(x.v["contact_info"].v[i])
    /\ IsArray(x.v["sections"])
    /\ \A i \in 1..Len(x.v["sections"].v) : ValidSection(x.v["sections"].v[i])

(***************************************************************************)
(* cvbuilder.py: the single-document pipeline.                             *)
(***************************************************************************)
None == <<>>

\* validate_file_path: the exception it raises, or "ok".
validate_file_path(dir, path) ==
    IF path \notin DOMAIN dir THEN "FileNotFoundError"
    ELSE IF dir[path].kind # "file" THEN "ValueError: not a file"
    ELSE "ok"

\* load_and_validate_json: the parsed data, or the exception that leaves it.
load_and_validate_json(dir, json_path) ==
    IF validate_file_path(dir, json_path) # "ok"
    THEN [ok |-> FALSE, error |-> validate_file_path(dir, json_path)]
    ELSE IF ~dir[json_path].parses
    THEN [ok |-> FALSE, error |-> "ValueError: invalid JSON"]
    ELSE IF ~ValidResume(dir[json_path].value)
    THEN [ok |-> FALSE, error |-> "ValueError: invalid structure"]
    ELSE [ok |-> TRUE, data |-> dir[json_path].value]

\* key=lambda x: x.get('id', '')
SectionKey(x) == IF Has(x, "id") THEN x.v["id"].v ELSE <<>>

SectionLess(a, b) == StrLess(SectionKey(a), SectionKey(b))

\* Mutant: the sections are passed on in input order.
SortSections_InputOrder(sections) == sections

\* sorted(data['sections'], key=...): stable, ascending by key.
SortSections(sections) ==
    LET n == Len(sections)
        rank(i) == 1 + Cardinality({j \in 1..n :
                        \/ SectionLess(sections[j], sections[i])
                        \/ (~SectionLess(sections[i], sections[j]) /\ j < i)})
    IN  [p \in 1..n |-> sections[CHOOSE i \in 1..n : rank(i) = p]]

\* data['sections'] = sorted(...)
WithSortedSections(data) ==
    [data EXCEPT !.v = [@ EXCEPT !["sections"] = JArr(SortSections(@.v))]]

\* load_template: the template handle, or the ValueError that wraps any failure.
load_template(dir, template_path) ==
    IF validate_file_path(dir, template_path) # "ok"
    THEN [ok |-> FALSE, error |-> "ValueError: failed to load template"]
    ELSE IF dir[template_path].template = "syntax_error"
    THEN [ok |-> FALSE, error |-> "ValueError: failed to load template"]
    ELSE [ok |-> TRUE, name |-> template_path, template |-> dir[template_path].template]

\* template.render(**data): the markup is a function of the template and the context.
Render(tpl, data) ==
    IF tpl.template = "render_error"
    THEN [ok |-> FALSE, error |-> "TemplateError"]
    ELSE [ok |-> TRUE, html |-> [template |-> tpl.name, context |-> data.v]]

HtmlFile(html) == [kind |-> "file", html |-> html]
TruncatedFile == [kind |-> "file", truncated |-> TRUE]
PdfFile(html) == [kind |-> "file", pdf_of |-> html]

base_filename(json_path) == PathStem(json_path) \o UnderscoreResume

\* Mutant: the file is opened with mode 'a', the markup lands after the old text.
WriteHtml_Append(out, html_path, html) ==
    IF html_path \in DOMAIN out
    THEN (html_path :> [kind |-> "file", html |-> html, after |-> out[html_path]]) @@ out
    ELSE (html_path :> HtmlFile(html)) @@ out

\* with open(html_path, 'w', encoding='utf-8') as f: f.write(html_content)
WriteHtml(out, html_path, html) == (html_path :> HtmlFile(html)) @@ out

\* Mutant: the handler prints the error and returns instead of exiting.
ExitOnError_Returns(out, error) ==
    [exited |-> FALSE, out |-> out, result |-> [html |-> None, pdf |-> None],
     stderr |-> <<[msg |-> "error", what |-> error]>>]

\* except Exception as e: print(..., file=sys.stderr); sys.exit(1)
ExitOnError(out, error) ==
    [exited |-> TRUE, out |-> out, result |-> [html |-> None, pdf |-> None],
     stderr |-> <<[msg |-> "error", what |-> error]>>]

\* The 'pdf' entry of the returned dictionary.
ResultPdf(pdf_available, pdf_path) == IF pdf_available THEN pdf_path ELSE None

\* Mutant: the block calls generate_pdf, which raises ImportError without a backend.
GeneratePdfStep_ViaGeneratePdf(out, html_path, pdf_path, pdf_available, environment) ==
    IF pdf_available
    THEN IF environment.pdf = "ok"
         THEN [raised |-> FALSE, stderr |-> <<>>,
               out |-> (pdf_path :> PdfFile(out[html_path].html)) @@ out]
         ELSE [raised |-> FALSE, out |-> out,
               stderr |-> <<[msg |-> "warning", what |-> "PDF generation failed"]>>]
    ELSE [raised |-> TRUE, out |-> out, stderr |-> <<>>]

\* Mutant: the inner try/except is missing, a failing write_pdf leaves the block.
GeneratePdfStep_Unguarded(out, html_path, pdf_path, pdf_available, environment) ==
    IF pdf_available
    THEN IF environment.pdf = "ok"
         THEN [raised |-> FALSE, stderr |-> <<>>,
               out |-> (pdf_path :> PdfFile(out[html_path].html)) @@ out]
         ELSE [raised |-> TRUE, out |-> out, stderr |-> <<>>]
    ELSE [raised |-> FALSE, out |-> out,
          stderr |-> <<[msg |-> "warning", what |-> "PDF generation skipped"]>>]

\* The PDF block: derive the PDF when the backend is there, warn when it is not or
\* when deriving raises. environment.pdf is what write_pdf does in this run.
GeneratePdfStep(out, html_path, pdf_path, pdf_available, environment) ==
    IF pdf_available
    THEN IF environment.pdf = "ok"
         THEN [raised |-> FALSE, stderr |-> <<>>,
               out |-> (pdf_path :> PdfFile(out[html_path].html)) @@ out]
         ELSE [raised |-> FALSE, out |-> out,
               stderr |-> <<[msg |-> "warning", what |-> "PDF generation failed"]>>]
    ELSE [raised |-> FALSE, out |-> out,
          stderr |-> <<[msg |-> "warning", what |-> "PDF generation skipped"]>>]

\* Lines 151-180: make the directory, write the HTML, derive the PDF, return.
EmitDocument(out, json_path, html, pdf_available, environment) ==
    LET html_path == base_filename(json_path) \o DotHtml
        pdf_path == base_filename(json_path) \o DotPdf
    IN  IF environment.write = "mkdir_fails"
        THEN ExitOnError(out, "OSError: mkdir")
        ELSE IF environment.write = "open_fails"
        THEN ExitOnError(out, "OSError: open")
        ELSE IF environment.write = "write_fails"
        THEN ExitOnError((html_path :> TruncatedFile) @@ out, "OSError: write")
        ELSE LET written == WriteHtml(out, html_path, html)
                 pdf == GeneratePdfStep(written, html_path, pdf_path,
                                        pdf_available, environment)
             IN  IF pdf.raised
                 THEN ExitOnError(pdf.out, "PDF failure")
                 ELSE [exited |-> FALSE, out |-> pdf.out, stderr |-> pdf.stderr,
                       result |-> [html |-> html_path,
                                   pdf |-> ResultPdf(pdf_available, pdf_path)]]

\* Mutant: the HTML file is opened for writing before the template is rendered.
generate_resume_OpensBeforeRender(jsonDir, tplDir, out, json_path, template_path, pdf_available, environment) ==
    LET loaded == load_and_validate_json(jsonDir, json_path)
    IN  IF ~loaded.ok THEN ExitOnError(out, loaded.error)
        ELSE LET data == WithSortedSections(loaded.data)
                 tpl == load_template(tplDir, template_path)
             IN  IF ~tpl.ok THEN ExitOnError(out, tpl.error)
                 ELSE LET rendered == Render(tpl, data)
                      IN  IF ~rendered.ok
                          THEN ExitOnError(((base_filename(json_path) \o DotHtml)
                                               :> TruncatedFile) @@ out, rendered.error)
                          ELSE EmitDocument(out, json_path, rendered.html,
                                            pdf_available, environment)

\* generate_resume(json_path, template_path, output_dir)
generate_resume(jsonDir, tplDir, out, json_path, template_path, pdf_available, environment) ==
    LET loaded == load_and_validate_json(jsonDir, json_path)
    IN  IF ~loaded.ok THEN ExitOnError(out, loaded.error)
        ELSE LET data == WithSortedSections(loaded.data)
                 tpl == load_template(tplDir, template_path)
             IN  IF ~tpl.ok THEN ExitOnError(out, tpl.error)
                 ELSE LET rendered == Render(tpl, data)
                      IN  IF ~rendered.ok THEN ExitOnError(out, rendered.error)
                          ELSE EmitDocument(out, json_path, rendered.html,
                                            pdf_available, environment)

(***************************************************************************)
(* The state: the three directories, the optional capabilities of the      *)
(* environment, the command line, and the locals of the running main().    *)
(***************************************************************************)
VARIABLES
    sampleDir,           \* the directory of the data files: name -> entry
    templateDir,         \* the directory of the templates: name -> entry
    outputDir,           \* the output directory: name -> entry
    PDF_AVAILABLE,       \* cvbuilder.PDF_AVAILABLE, set at import
    environment,         \* what the external tools and the disk do in this run
    argv,                \* the parsed command line
    pc,                  \* the position of main()
    exit_code,           \* the exit status of the process, -1 while it runs
    stderr,              \* what generate_resume printed to sys.stderr
    result,              \* the value generate_resume returned last
    template_files,      \* generate_samples.main: template_files
    sample_data_files,   \* generate_samples.main: sample_data_files
    chromium_available,  \* generate_samples.main: chromium_available
    di,                  \* index of the outer loop in sorted(sample_data_files)
    ti,                  \* index of the inner loop in sorted(template_files)
    temp_data_path,      \* generate_samples.main: temp_data_path
    attempts,            \* the pairs whose "Generating ..." line was printed
    reported,            \* the per-pair outcome lines printed to stdout
    screenshots,         \* the calls of capture_screenshot and what they returned
    probes,              \* the number of calls of is_chromium_available
    first_output         \* the output directory as the previous run of the program left it

vars == <<sampleDir, templateDir, outputDir, PDF_AVAILABLE, environment, argv, pc,
          exit_code, stderr, result, template_files, sample_data_files,
          chromium_available, di, ti, temp_data_path, attempts, reported, screenshots,
          probes, first_output>>

NoResult == [html |-> None, pdf |-> None]
EmptyDir == <<>>

(***************************************************************************)
(* Inputs of single-document mode.                                         *)
(***************************************************************************)
InputName == <<"a", ".", "j", "s", "o", "n">>
TemplateName == <<"t", ".", "h", "t", "m", "l">>

SectionIds == {<<>>, <<"0">>, <<"1">>, <<"0", "0">>, <<"1", "0">>}
Labels == <<<<"a">>, <<"b">>, <<"d">>, <<"e">>>>
Email == <<"e", "m", "a", "i", "l">>
Phone == <<"p", "h", "o", "n", "e">>

ContentItem == JObj([name |-> JStr(<<"x">>)])
Section(id, i) ==
    JObj([id |-> JStr(id), label |-> JStr(Labels[i]), content |-> JArr(<<ContentItem>>)])
Contact(type) == JObj([type |-> JStr(type), info |-> JStr(<<"x">>)])
Resume(name, contacts, sections) ==
    JObj([name |-> JStr(name), contact_info |-> JArr(contacts), sections |-> JArr(sections)])

SectionLists ==
    UNION {{[i \in 1..n |-> Section(ids[i], i)] : ids \in [1..n -> SectionIds]} :
           n \in 0..MaxSections}

Text == <<"t", "e", "x", "t">>
Link == <<"l", "i", "n", "k">>
ContactLists == {<<>>, <<Contact(Email)>>, <<Contact(Text), Contact(Link)>>}

\* A content item with every field the schema declares.
FullItem ==
    JObj([name |-> JStr(<<"x">>), period |-> JStr(<<"1">>), title |-> JStr(<<>>),
          bullets |-> JArr(<<JStr(<<"x">>)>>)])
SectionOf(id, items) ==
    JObj([id |-> JStr(id), label |-> JStr(<<"a">>), content |-> JArr(items)])

ValidDocs ==
    {Resume(<<"x">>, c, s) : c \in ContactLists, s \in SectionLists}
    \cup {Resume(<<"x">>, <<>>, <<SectionOf(<<"1">>, <<ContentItem, FullItem>>)>>)}

\* Content items with a field the schema does not declare.
ItemWithLocation == JObj([name |-> JStr(<<"x">>), location |-> JStr(<<"x">>)])
FullItemWithLocation ==
    JObj([name |-> JStr(<<"x">>), period |-> JStr(<<"1">>), title |-> JStr(<<>>),
          bullets |-> JArr(<<JStr(<<"x">>)>>), location |-> JStr(<<"x">>)])

ExtraFieldDocs ==
    { Resume(<<"x">>, <<>>, <<SectionOf(<<"1">>, <<ItemWithLocation>>)>>),
      Resume(<<"x">>, <<Contact(Email)>>, <<SectionOf(<<"1">>, <<FullItemWithLocation>>)>>),
      Resume(<<"x">>, <<>>, <<SectionOf(<<"1">>, <<ContentItem>>),
                              SectionOf(<<"0">>, <<ContentItem, ItemWithLocation>>)>>) }

\* The document of the shape with the keys contactInfo and kind.
CamelCaseDoc ==
    JObj([name |-> JStr(<<"x">>),
          contactInfo |-> JArr(<<JObj([kind |-> JStr(Email), info |-> JStr(<<"x">>)])>>),
          sections |-> JArr(<<>>)])

InvalidDocs ==
    { Resume(<<>>, <<Contact(Email)>>, <<Section(<<"1">>, 1)>>),
      Resume(<<"x">>, <<Contact(Phone)>>, <<Section(<<"1">>, 1)>>),
      Resume(<<"x">>, <<Contact(Email), Contact(Phone)>>, <<>>),
      Resume(<<"x">>, <<JObj([type |-> JStr(Email), info |-> JStr(<<>>)])>>, <<>>),
      Resume(<<"x">>, <<JObj([info |-> JStr(<<"x">>)])>>, <<>>),
      JObj([name |-> JStr(<<"x">>), sections |-> JArr(<<>>)]),
      JObj([contact_info |-> JArr(<<>>), sections |-> JArr(<<>>)]),
      JObj([name |-> JStr(<<"x">>), contact_info |-> JArr(<<>>)]),
      JObj([name |-> JNum(1), contact_info |-> JArr(<<>>), sections |-> JArr(<<>>)]),
      JArr(<<>>),
      CamelCaseDoc,
      Resume(<<"x">>, <<>>, <<JObj([label |-> JStr(<<"a">>), content |-> JArr(<<>>)])>>) }
    \cup ExtraFieldDocs

StaleHtml == HtmlFile([template |-> <<"o", "l", "d">>, context |-> <<>>])

InitSingle ==
    /\ argv = [mode |-> "single", input |-> InputName, template |-> TemplateName]
    /\ sampleDir \in {EmptyDir, InputName :> DirEntry, InputName :> GarbageFile}
                     \cup {InputName :> JsonFile(d) : d \in ValidDocs \cup InvalidDocs}
    /\ templateDir \in {EmptyDir, TemplateName :> DirEntry}
                       \cup {TemplateName :> TemplateFile(b) :
                                b \in {"good", "syntax_error", "render_error"}}
    /\ outputDir \in {EmptyDir, (base_filename(InputName) \o DotHtml) :> StaleHtml}
    /\ PDF_AVAILABLE \in BOOLEAN
    /\ environment \in [pdf : {"ok", "fails"},
                        write : {"ok", "mkdir_fails", "open_fails", "write_fails"},
                        probe : {"ok"}, shot : {"ok"}]
    /\ PDF_AVAILABLE = FALSE => environment.pdf = "ok"
    /\ pc = "main"
    /\ exit_code = -1
    /\ stderr = <<>>
    /\ result = NoResult
    /\ template_files = <<>>
    /\ sample_data_files = <<>>
    /\ chromium_available = FALSE
    /\ di = 0
    /\ ti = 0
    /\ temp_data_path = None
    /\ attempts = <<>>
    /\ reported = <<>>
    /\ screenshots = <<>>
    /\ probes = 0
    /\ first_output = EmptyDir

\* cvbuilder.main: parse the command line, call generate_resume, fall off the end.
CvbuilderMain ==
    /\ argv.mode = "single"
    /\ pc = "main"
    /\ LET r == generate_resume(sampleDir, templateDir, outputDir, argv.input,
                                argv.template, PDF_AVAILABLE, environment)
       IN  /\ outputDir' = r.out
           /\ stderr' = stderr \o r.stderr
           /\ result' = r.result
           /\ exit_code' = IF r.exited THEN 1 ELSE 0
    /\ pc' = "exit"
    /\ UNCHANGED <<sampleDir, templateDir, PDF_AVAILABLE, environment, argv,
                   template_files, sample_data_files, chromium_available, di, ti,
                   temp_data_path, attempts, reported, screenshots,
                   probes, first_output>>

NextSingle == CvbuilderMain

\* The program is started a second time with the same command line, on the
\* directories as its first run left them.
CvbuilderMainAgain ==
    /\ argv.mode = "single"
    /\ pc = "exit"
    /\ first_output' = outputDir
    /\ LET r == generate_resume(sampleDir, templateDir, outputDir, argv.input,
                                argv.template, PDF_AVAILABLE, environment)
       IN  /\ outputDir' = r.out
           /\ stderr' = r.stderr
           /\ result' = r.result
           /\ exit_code' = IF r.exited THEN 1 ELSE 0
    /\ pc' = "exit_again"
    /\ UNCHANGED <<sampleDir, templateDir, PDF_AVAILABLE, environment, argv,
                   template_files, sample_data_files, chromium_available, di, ti,
                   temp_data_path, attempts, reported, screenshots, probes>>

NextRerun ==
    \/ CvbuilderMain
    \/ CvbuilderMainAgain

SpecRerun == InitSingle /\ [][NextRerun]_vars

SpecSingle == InitSingle /\ [][NextSingle]_vars

(***************************************************************************)
(* generate_samples.py: the batch orchestrator.                            *)
(***************************************************************************)
OutputDirName == <<"o", "u", "t", "p", "u", "t">>
ReadmeName == <<"r", "e", "a", "d", "m", "e">>

\* Mutant: the lists are iterated as the directory listing returned them.
SortPaths_Unsorted(paths) == paths

\* sorted(sample_data_files), sorted(template_files): stable, ascending paths.
SortPaths(paths) ==
    LET n == Len(paths)
        rank(i) == 1 + Cardinality({j \in 1..n :
                        \/ PathLess(paths[j], paths[i])
                        \/ (~PathLess(paths[i], paths[j]) /\ j < i)})
    IN  [p \in 1..n |-> paths[CHOOSE i \in 1..n : rank(i) = p]]

\* temp_data_name = f"{sample_name}_{template_name}.json"
temp_data_name(sample_data, template_file) ==
    PathStem(sample_data) \o <<"_">> \o PathStem(template_file) \o DotJson

\* Mutant: the probe only checks that the command ran, not its exit code.
is_chromium_available_AnyExitCode(env) == env.probe \in {"ok", "nonzero"}

\* is_chromium_available: the probe's exit code is 0; any exception gives False.
is_chromium_available(env) == env.probe = "ok"

\* Mutant: subprocess.TimeoutExpired is not caught and leaves the function.
capture_screenshot_Raising(out, html_path, output_path, env) ==
    IF env.shot = "ok"
    THEN [raised |-> FALSE, returned |-> output_path,
          out |-> (output_path :> [kind |-> "file", png_of |-> html_path]) @@ out]
    ELSE [raised |-> env.shot = "timeout", returned |-> None, out |-> out]

\* capture_screenshot: the path on exit code 0, None on any other outcome; the
\* timeout and every other exception are caught inside it.
capture_screenshot(out, html_path, output_path, env) ==
    IF env.shot = "ok"
    THEN [raised |-> FALSE, returned |-> output_path,
          out |-> (output_path :> [kind |-> "file", png_of |-> html_path]) @@ out]
    ELSE [raised |-> FALSE, returned |-> None, out |-> out]

CurrentData == SortPaths(sample_data_files)[di]
CurrentTemplate == SortPaths(template_files)[ti]
CurrentPair == <<CurrentData, CurrentTemplate>>

\* The data files and templates of the model's sample and template directories.
DataPool ==
    (<<"a", ".", "j", "s", "o", "n">> :> JsonFile(Resume(<<"x">>, <<>>, <<>>)))
 @@ (<<"a", "_", "b", ".", "j", "s", "o", "n">>
        :> JsonFile(Resume(<<"x">>, <<Contact(Email)>>, <<>>)))
 @@ (<<"a", "_", "t", ".", "j", "s", "o", "n">> :> GarbageFile)
 @@ (<<"0", ".", "j", "s", "o", "n">> :> JsonFile(Resume(<<>>, <<>>, <<>>)))

TemplatePool ==
    (<<"t", ".", "h", "t", "m", "l">> :> TemplateFile("good"))
 @@ (<<"b", "_", "t", ".", "h", "t", "m", "l">> :> TemplateFile("good"))
 @@ (<<"s", ".", "h", "t", "m", "l">> :> TemplateFile("syntax_error"))
 @@ (<<"u", ".", "h", "t", "m", "l">> :> TemplateFile("render_error"))

Restrict(f, S) == [x \in S |-> f[x]]

ChromiumBehaviours ==
    {[probe |-> p, shot |-> "ok"] : p \in {"nonzero", "timeout", "missing"}}
    \cup {[probe |-> "ok", shot |-> s] : s \in {"ok", "nonzero", "timeout", "error"}}

Init ==
    /\ \E D \in SUBSET DOMAIN DataPool :
          /\ Cardinality(D) <= MaxData
          /\ sampleDir = (ReadmeName :> [kind |-> "file"]) @@ Restrict(DataPool, D)
    /\ \E T \in SUBSET DOMAIN TemplatePool :
          /\ Cardinality(T) <= MaxTemplates
          /\ templateDir = Restrict(TemplatePool, T)
    /\ argv \in {[mode |-> "batch", config |-> c] :
                    c \in {None, InputName, OutputDirName, ReadmeName}}
    /\ outputDir = EmptyDir
    /\ PDF_AVAILABLE \in BOOLEAN
    /\ \E c \in ChromiumBehaviours, p \in {"ok", "fails"},
          w \in {"ok", "open_fails", "write_fails"} :
          environment = [pdf |-> p, write |-> w, probe |-> c.probe, shot |-> c.shot]
    /\ PDF_AVAILABLE = FALSE => environment.pdf = "ok"
    /\ pc = "discover"
    /\ exit_code = -1
    /\ stderr = <<>>
    /\ result = NoResult
    /\ template_files = <<>>
    /\ sample_data_files = <<>>
    /\ chromium_available = FALSE
    /\ di = 0
    /\ ti = 0
    /\ temp_data_path = None
    /\ attempts = <<>>
    /\ reported = <<>>
    /\ screenshots = <<>>
    /\ probes = 0
    /\ first_output = EmptyDir

\* Line 77: if not template_files
NoTemplates(files) == files = <<>>

\* Mutant: the check for an empty sample directory is missing.
NoSampleData_Unchecked(files) == FALSE

\* Line 99: if not sample_data_files
NoSampleData(files) == files = <<>>

\* Lines 65-102: make the output directory, find the templates and the data files.
Discover ==
    /\ argv.mode = "batch"
    /\ pc = "discover"
    /\ LET made == (OutputDirName :> DirEntry) @@ sampleDir
           cfg == argv.config
       IN  /\ sampleDir' = made
           /\ template_files' \in Orderings(GlobMatches(templateDir, DotHtml))
           /\ IF NoTemplates(template_files')
              THEN /\ sample_data_files' = <<>>
                   /\ pc' = "exit" /\ exit_code' = 1
              ELSE IF cfg # None
              THEN IF \/ cfg \notin DOMAIN made
                      \/ made[cfg].kind # "file"
                      \/ PathSuffix(cfg) # DotJson
                   THEN /\ sample_data_files' = <<>>
                        /\ pc' = "exit" /\ exit_code' = 1
                   ELSE /\ sample_data_files' = <<cfg>>
                        /\ pc' = "probe" /\ exit_code' = exit_code
              ELSE /\ sample_data_files' \in Orderings(GlobMatches(made, DotJson))
                   /\ IF NoSampleData(sample_data_files')
                      THEN pc' = "exit" /\ exit_code' = 1
                      ELSE pc' = "probe" /\ exit_code' = exit_code
    /\ UNCHANGED <<templateDir, outputDir, PDF_AVAILABLE, environment, argv, stderr,
                   result, chromium_available, di, ti, temp_data_path, attempts,
                   reported, screenshots,
                   probes, first_output>>

\* Lines 104-114: probe the screenshot tool once, then enter the loops.
Probe ==
    /\ pc = "probe"
    /\ chromium_available' = is_chromium_available(environment)
    /\ probes' = probes + 1
    /\ di' = 1
    /\ ti' = 1
    /\ pc' = "pair"
    /\ UNCHANGED <<sampleDir, templateDir, outputDir, PDF_AVAILABLE, environment, argv,
                   exit_code, stderr, result, template_files, sample_data_files,
                   temp_data_path, attempts, reported, screenshots,
                   first_output>>

\* The loop headers of lines 117 and 121: the pair after the current one.
NextTi == IF ti < Len(template_files) THEN ti + 1 ELSE 1
NextDi == IF ti < Len(template_files) THEN di ELSE di + 1

\* Lines 117-132: take the next pair and stage its working copy. shutil.copy2
\* raises when the data file is gone; line 157 catches that and reports it.
Stage ==
    /\ pc = "pair"
    /\ di <= Len(sample_data_files)
    /\ attempts' = Append(attempts, CurrentPair)
    /\ temp_data_path' = temp_data_name(CurrentData, CurrentTemplate)
    /\ IF CurrentData \in DOMAIN sampleDir /\ sampleDir[CurrentData].kind = "file"
       THEN /\ sampleDir' = (temp_data_path' :> sampleDir[CurrentData]) @@ sampleDir
            /\ pc' = "generate"
            /\ UNCHANGED <<reported, di, ti>>
       ELSE /\ reported' = Append(reported, [pair |-> CurrentPair, outcome |-> "failed"])
            /\ di' = NextDi
            /\ ti' = NextTi
            /\ pc' = "pair"
            /\ UNCHANGED sampleDir
    /\ UNCHANGED <<templateDir, outputDir, PDF_AVAILABLE, environment, argv, exit_code,
                   stderr, result, template_files, sample_data_files,
                   chromium_available, screenshots,
                   probes, first_output>>

\* Lines 135-139: generate_resume on the staged copy. Its sys.exit(1) raises
\* SystemExit, which is not an Exception: line 157 does not catch it and the
\* process ends with status 1.
Generate ==
    /\ pc = "generate"
    /\ LET r == generate_resume(sampleDir, templateDir, outputDir, temp_data_path,
                                CurrentTemplate, PDF_AVAILABLE, environment)
       IN  /\ outputDir' = r.out
           /\ stderr' = stderr \o r.stderr
           /\ result' = r.result
           /\ IF r.exited
              THEN pc' = "exit" /\ exit_code' = 1
              ELSE pc' = "cleanup" /\ exit_code' = exit_code
    /\ UNCHANGED <<sampleDir, templateDir, PDF_AVAILABLE, environment, argv,
                   template_files, sample_data_files, chromium_available, di, ti,
                   temp_data_path, attempts, reported, screenshots,
                   probes, first_output>>

\* Line 142: temp_data_path.unlink()
Cleanup ==
    /\ pc = "cleanup"
    /\ sampleDir' = Restrict(sampleDir, DOMAIN sampleDir \ {temp_data_path})
    /\ pc' = "report"
    /\ UNCHANGED <<templateDir, outputDir, PDF_AVAILABLE, environment, argv, exit_code,
                   stderr, result, template_files, sample_data_files,
                   chromium_available, di, ti, temp_data_path, attempts, reported,
                   screenshots,
                   probes, first_output>>

\* Lines 144-158: report the pair, take the screenshot, go to the next pair. An
\* exception leaving capture_screenshot would reach line 157 and report a failure.
Report ==
    /\ pc = "report"
    /\ IF result.html # None /\ chromium_available
       THEN LET shot == capture_screenshot(outputDir, result.html,
                                           WithSuffix(result.html, DotPng), environment)
            IN  /\ outputDir' = shot.out
                /\ screenshots' = Append(screenshots,
                                         [html |-> result.html, returned |-> shot.returned])
                /\ reported' =
                      IF shot.raised
                      THEN reported \o <<[pair |-> CurrentPair, outcome |-> "generated"],
                                         [pair |-> CurrentPair, outcome |-> "failed"]>>
                      ELSE Append(reported, [pair |-> CurrentPair, outcome |-> "generated"])
       ELSE /\ reported' = Append(reported, [pair |-> CurrentPair, outcome |-> "generated"])
            /\ UNCHANGED <<outputDir, screenshots>>
    /\ di' = NextDi
    /\ ti' = NextTi
    /\ pc' = "pair"
    /\ UNCHANGED <<sampleDir, templateDir, PDF_AVAILABLE, environment, argv, exit_code,
                   stderr, result, template_files, sample_data_files,
                   chromium_available, temp_data_path, attempts,
                   probes, first_output>>

\* The outer loop is exhausted: main returns and the process ends with status 0.
Finish ==
    /\ pc = "pair"
    /\ di > Len(sample_data_files)
    /\ pc' = "exit"
    /\ exit_code' = 0
    /\ UNCHANGED <<sampleDir, templateDir, outputDir, PDF_AVAILABLE, environment, argv,
                   stderr, result, template_files, sample_data_files,
                   chromium_available, di, ti, temp_data_path, attempts, reported,
                   screenshots,
                   probes, first_output>>

Next ==
    \/ Discover
    \/ Probe
    \/ Stage
    \/ Generate
    \/ Cleanup
    \/ Report
    \/ Finish

Spec == Init /\ [][Next]_vars

(***************************************************************************)
(* Properties of the batch run (specification Spec).                       *)
(***************************************************************************)
Range(seq) == {seq[i] : i \in 1..Len(seq)}

\* The loops were entered: both discoveries found something.
LoopsEntered == sample_data_files # <<>> /\ template_files # <<>>

AllPairs == Range(sample_data_files) \X Range(template_files)

\* The HTML file a pair writes.
HtmlOf(pair) == base_filename(temp_data_name(pair[1], pair[2])) \o DotHtml

\* The pair's own data and template are valid and its HTML can be written.
PairIsValid(pair) ==
    /\ DataPool[pair[1]].parses
    /\ DataPool[pair[1]].value \in ValidDocs
    /\ TemplatePool[pair[2]].template = "good"
    /\ environment.write = "ok"

\* C1: in batch mode a failure inside one task does not stop the run: when the
\* run has ended every one of the N*M pairs was attempted, and every pair whose
\* own data and template are valid has its HTML output.
C1_FailureDoesNotStopTheRun ==
    (pc = "exit" /\ LoopsEntered) =>
        /\ Range(attempts) = AllPairs
        /\ \A pair \in AllPairs :
              PairIsValid(pair) =>
                 /\ HtmlOf(pair) \in DOMAIN outputDir
                 /\ "html" \in DOMAIN outputDir[HtmlOf(pair)]

\* C2: whenever a task has ended, and at the end of the run however it ends, the
\* staged working copy of the task no longer exists in the data directory.
C2_StagedCopyDeleted ==
    (pc \in {"pair", "exit"} /\ temp_data_path # None) =>
        temp_data_path \notin DOMAIN sampleDir

\* C3: no two distinct pairs of one run write the same output path: the output
\* base names of any two generated pairs differ.
C3_OutputNamesDiffer ==
    \A i, j \in 1..Len(reported) :
        (/\ i # j
         /\ reported[i].outcome = "generated"
         /\ reported[j].outcome = "generated"
         /\ reported[i].pair # reported[j].pair)
        => HtmlOf(reported[i].pair) # HtmlOf(reported[j].pair)

\* The number of discovered paths that sort before path p.
Before(p, S) == Cardinality({q \in S : StrLess(q, p)})

\* C9: the k-th attempt is the pair of the data source with (k-1) div M smaller
\* data sources and the template with (k-1) mod M smaller templates, whatever
\* order the directory listing had; no pair is attempted twice; and a run in which
\* no task failed ends after exactly N*M attempts.
C9_DeterministicNestedOrder ==
    LET M == Len(template_files)
        N == Len(sample_data_files)
    IN  /\ \A k \in 1..Len(attempts) :
              /\ Before(attempts[k][1], Range(sample_data_files)) = (k - 1) \div M
              /\ Before(attempts[k][2], Range(template_files)) = (k - 1) % M
        /\ \A k, l \in 1..Len(attempts) : k # l => attempts[k] # attempts[l]
        /\ (/\ pc = "exit"
            /\ exit_code = 0
            /\ \A k \in 1..Len(reported) : reported[k].outcome = "generated")
           => Len(attempts) = N * M

\* A full 2 x 2 run whose directory listings were not in sorted order.
C9_Witness ==
    /\ pc = "exit"
    /\ exit_code = 0
    /\ Len(attempts) = 4
    /\ \A k \in 1..Len(reported) : reported[k].outcome = "generated"
    /\ sample_data_files # SortPaths(sample_data_files)
    /\ template_files # SortPaths(template_files)

\* C10: a failing screenshot tool (non-zero exit, timeout, any other error) only
\* degrades the report step: the step returns, the pair is reported generated and
\* not failed, the output files stay as they were (the HTML is still there), the
\* process keeps running and the loops move on to the next pair.
C10_ScreenshotFailureIsAWarning ==
    [][(/\ pc = "report"
        /\ result.html # None
        /\ chromium_available
        /\ environment.shot # "ok")
       => /\ pc' = "pair"
          /\ exit_code' = -1
          /\ di' = NextDi /\ ti' = NextTi
          /\ reported' = Append(reported, [pair |-> CurrentPair, outcome |-> "generated"])
          /\ screenshots' = Append(screenshots, [html |-> result.html, returned |-> None])
          /\ outputDir' = outputDir
          /\ result.html \in DOMAIN outputDir'
          /\ result' = result]_vars

\* A screenshot failed and the next pair was attempted after it.
C10_Witness ==
    /\ environment.shot \in {"nonzero", "timeout", "error"}
    /\ Len(screenshots) >= 1
    /\ screenshots[1].returned = None
    /\ Len(attempts) >= 2
    /\ reported[1].outcome = "generated"

\* The screenshot tool answers the probe with exit code 0.
ToolAvailable == environment.probe = "ok"

\* C11: the screenshot tool is probed exactly once per batch run, before the
\* first task starts; when the probe finds the tool unavailable no screenshot is
\* attempted in the run, and when it finds it available a screenshot is attempted
\* only for the HTML file of a task that produced one.
C11_ProbedOnceUpFront ==
    /\ probes <= 1
    /\ attempts # <<>> => probes = 1
    /\ (pc = "exit" /\ LoopsEntered) => probes = 1
    /\ ~ToolAvailable => screenshots = <<>>
    /\ \A k \in 1..Len(screenshots) :
          /\ screenshots[k].html \in DOMAIN outputDir
          /\ "html" \in DOMAIN outputDir[screenshots[k].html]
          /\ \E i \in 1..Len(attempts) : screenshots[k].html = HtmlOf(attempts[i])

\* The probe failed and a task produced HTML without a screenshot attempt.
C11_Witness ==
    /\ environment.probe = "nonzero"
    /\ probes = 1
    /\ Len(reported) >= 1
    /\ reported[1].outcome = "generated"
    /\ screenshots = <<>>

\* The run has no template, or no data source, to discover.
NothingDiscoverable ==
    \/ GlobMatches(templateDir, DotHtml) = {}
    \/ /\ argv.config = None
       /\ GlobMatches(sampleDir, DotJson) = {}
    \/ /\ argv.config # None
       /\ \/ argv.config \notin DOMAIN sampleDir
          \/ sampleDir[argv.config].kind # "file"
          \/ ~EndsWith(argv.config, DotJson)

\* C12: a batch run that can discover no template or no data source ends with
\* status 1 and attempts no task: nothing is staged and no output file is written.
C12_NothingToDoExitsOne ==
    (argv.mode = "batch" /\ NothingDiscoverable) =>
        /\ pc = "exit" => exit_code = 1
        /\ pc \in {"discover", "exit"}
        /\ attempts = <<>>
        /\ temp_data_path = None
        /\ DOMAIN sampleDir \subseteq DOMAIN DataPool \cup {ReadmeName, OutputDirName}
        /\ outputDir = EmptyDir

\* A run over templates and an empty sample directory has ended.
C12_Witness ==
    /\ pc = "exit"
    /\ exit_code = 1
    /\ argv.config = None
    /\ GlobMatches(sampleDir, DotJson) = {}
    /\ template_files # <<>>

\* C17: staging and cleanup never touch a data source: when the run has ended,
\* every discovered data file still exists with the content it had before the run.
C17_DataSourcesUntouched ==
    (argv.mode = "batch" /\ pc = "exit") =>
        \A n \in Range(sample_data_files) :
            /\ n \in DOMAIN sampleDir
            /\ sampleDir[n] = DataPool[n]

(***************************************************************************)
(* Properties of one generate_resume call (specification SpecSingle).      *)
(***************************************************************************)
\* The input path names a file that parses to a document of the valid shape.
InputIsValid ==
    /\ InputName \in DOMAIN sampleDir
    /\ sampleDir[InputName].kind = "file"
    /\ sampleDir[InputName].parses
    /\ sampleDir[InputName].value \in ValidDocs

\* The template path names a template that loads and renders.
TemplateIsValid ==
    /\ TemplateName \in DOMAIN templateDir
    /\ templateDir[TemplateName].kind = "file"
    /\ templateDir[TemplateName].template = "good"

Finished == argv.mode = "single" /\ pc = "exit"

SingleHtmlPath == <<"a">> \o UnderscoreResume \o DotHtml
SinglePdfPath == <<"a">> \o UnderscoreResume \o DotPdf

\* The HTML file of this run is in the output directory, completely written.
HtmlProduced ==
    /\ SingleHtmlPath \in DOMAIN outputDir
    /\ "html" \in DOMAIN outputDir[SingleHtmlPath]
    /\ outputDir[SingleHtmlPath].html.template = TemplateName

\* C4: without a PDF backend, generate_resume on a valid document and a valid
\* template (and an output directory it can write) does not fail: the HTML file
\* is written, the returned HTML path is non-null and the returned PDF path is null.
C4_NoPdfBackendStillSucceeds ==
    (/\ Finished
     /\ ~PDF_AVAILABLE
     /\ InputIsValid /\ TemplateIsValid
     /\ environment.write = "ok")
    => /\ exit_code = 0
       /\ HtmlProduced
       /\ result.html = SingleHtmlPath
       /\ result.pdf = None
       /\ SinglePdfPath \notin DOMAIN outputDir

C4_Witness ==
    /\ Finished
    /\ ~PDF_AVAILABLE
    /\ InputIsValid /\ TemplateIsValid
    /\ environment.write = "ok"
    /\ result.html # None
    /\ stderr = <<[msg |-> "warning", what |-> "PDF generation skipped"]>>

\* C5: the PDF path of a returned result is non-null only if a PDF backend is
\* available and the PDF derivation of this call succeeded.
C5_PdfPathOnlyWhenDerived ==
    (Finished /\ exit_code = 0 /\ result.pdf # None)
    => (PDF_AVAILABLE /\ environment.pdf = "ok")

\* What the template receives for the input document: its sections are compared
\* with the input's in C8; here only the identity of the written markup matters.
WrittenHtml == outputDir[SingleHtmlPath].html

\* C6: when the backend is there but the derivation fails, generate_resume still
\* succeeds: a warning and no error is printed, the HTML that was written is in
\* place with the rendered markup, the result carries the HTML path, and the
\* process does not end with a failure status.
C6_PdfFailureIsAWarning ==
    (/\ Finished
     /\ PDF_AVAILABLE /\ environment.pdf = "fails"
     /\ InputIsValid /\ TemplateIsValid
     /\ environment.write = "ok")
    => /\ exit_code = 0
       /\ result.html = SingleHtmlPath
       /\ HtmlProduced
       /\ WrittenHtml = [template |-> TemplateName,
                          context |-> WithSortedSections(sampleDir[InputName].value).v]
       /\ stderr = <<[msg |-> "warning", what |-> "PDF generation failed"]>>

C6_Witness ==
    /\ Finished
    /\ PDF_AVAILABLE /\ environment.pdf = "fails"
    /\ InputIsValid /\ TemplateIsValid
    /\ environment.write = "ok"
    /\ HtmlProduced
    /\ SinglePdfPath \notin DOMAIN outputDir

\* An error of the run that nothing recovers: of the input, of the template, or
\* of writing the HTML.
UnrecoveredError ==
    \/ ~InputIsValid
    \/ ~TemplateIsValid
    \/ environment.write # "ok"

\* C7: single-document mode ends with status 1 on every unrecovered error and
\* with status 0 exactly when the HTML file was produced, with or without a PDF.
C7_ExitStatus ==
    Finished =>
        /\ exit_code \in {0, 1}
        /\ UnrecoveredError <=> exit_code = 1
        /\ HtmlProduced <=> exit_code = 0

\* Status 0 with the HTML produced and no PDF, the backend having failed.
C7_Witness ==
    /\ Finished
    /\ exit_code = 0
    /\ HtmlProduced
    /\ SinglePdfPath \notin DOMAIN outputDir
    /\ PDF_AVAILABLE

InputSections == sampleDir[InputName].value.v["sections"].v
RenderedSections == WrittenHtml.context["sections"].v
IdOf(section) == section.v["id"].v

\* C8: for every valid document the sections the template receives are a
\* permutation of the input's sections in ascending order of the raw id strings.
C8_SectionsSortedById ==
    (Finished /\ exit_code = 0) =>
        /\ Len(RenderedSections) = Len(InputSections)
        /\ \A x \in Range(InputSections) :
              Cardinality({i \in 1..Len(InputSections) : InputSections[i] = x})
              = Cardinality({i \in 1..Len(RenderedSections) : RenderedSections[i] = x})
        /\ \A i, j \in 1..Len(RenderedSections) :
              i < j => ~StrLess(IdOf(RenderedSections[j]), IdOf(RenderedSections[i]))

\* A document whose sections were not in order was rendered.
C8_Witness ==
    /\ Finished
    /\ exit_code = 0
    /\ Len(InputSections) = 2
    /\ StrLess(IdOf(InputSections[2]), IdOf(InputSections[1]))
    /\ RenderedSections = <<InputSections[2], InputSections[1]>>

(***************************************************************************)
(* Properties of the validator, seen through one run (SpecSingle).         *)
(***************************************************************************)
InputParses ==
    /\ InputName \in DOMAIN sampleDir
    /\ sampleDir[InputName].kind = "file"
    /\ sampleDir[InputName].parses

InputDoc == sampleDir[InputName].value

\* The run ended in the schema violation handler: the document was rejected.
Rejected ==
    /\ exit_code = 1
    /\ stderr = <<[msg |-> "error", what |-> "ValueError: invalid structure"]>>

\* Some content item of the document has a field other than the four declared.
HasExtraField(doc) ==
    /\ doc.t = "object"
    /\ "sections" \in DOMAIN doc.v
    /\ doc.v["sections"].t = "array"
    /\ \E i \in 1..Len(doc.v["sections"].v) :
          LET sec == doc.v["sections"].v[i]
          IN  /\ sec.t = "object"
              /\ "content" \in DOMAIN sec.v
              /\ sec.v["content"].t = "array"
              /\ \E j \in 1..Len(sec.v["content"].v) :
                    /\ sec.v["content"].v[j].t = "object"
                    /\ ~(DOMAIN sec.v["content"].v[j].v
                            \subseteq {"name", "period", "title", "bullets"})

\* C13: a content item with a field other than name, period, title and bullets
\* makes validation of the whole document fail: the run ends in the schema
\* violation, nothing is returned, and no markup is rendered or written.
C13_ExtraFieldRejected ==
    (Finished /\ InputParses /\ HasExtraField(InputDoc)) =>
        /\ Rejected
        /\ result = NoResult
        /\ ~HtmlProduced
        /\ SinglePdfPath \notin DOMAIN outputDir

\* A document whose only defect is the extra field of one item was rejected.
C13_Witness ==
    /\ Finished
    /\ InputParses
    /\ InputDoc = Resume(<<"x">>, <<Contact(Email)>>,
                         <<SectionOf(<<"1">>, <<FullItemWithLocation>>)>>)
    /\ TemplateIsValid
    /\ environment.write = "ok"
    /\ Rejected

\* The contact entries of a document under the key `key`, each with `field` in
\* the three-value enumeration and a non-empty info.
ContactsConform(doc, key, field) ==
    /\ doc.v[key].t = "array"
    /\ \A i \in 1..Len(doc.v[key].v) :
          LET e == doc.v[key].v[i]
          IN  /\ e.t = "object"
              /\ field \in DOMAIN e.v /\ "info" \in DOMAIN e.v
              /\ e.v[field].t = "string" /\ e.v[field].v \in {Text, Email, Link}
              /\ e.v["info"].t = "string" /\ e.v["info"].v # <<>>

\* Some contact entry under `key` has `field` outside the enumeration.
ContactOutsideEnum(doc, key, field) ==
    /\ doc.t = "object"
    /\ key \in DOMAIN doc.v
    /\ doc.v[key].t = "array"
    /\ \E i \in 1..Len(doc.v[key].v) :
          LET e == doc.v[key].v[i]
          IN  /\ e.t = "object"
              /\ field \in DOMAIN e.v
              /\ e.v[field].t = "string" /\ e.v[field].v \notin {Text, Email, Link}

LacksKey(doc, keys) == doc.t = "object" /\ ~(keys \subseteq DOMAIN doc.v)

RanTwice == argv.mode = "single" /\ pc = "exit_again"

FirstFailure ==
    IF InputName \notin DOMAIN sampleDir THEN "FileNotFoundError"
    ELSE IF sampleDir[InputName].kind # "file" THEN "ValueError: not a file"
    ELSE IF ~sampleDir[InputName].parses THEN "ValueError: invalid JSON"
    ELSE IF sampleDir[InputName].value \notin ValidDocs THEN "ValueError: invalid structure"
    ELSE IF \/ TemplateName \notin DOMAIN templateDir
            \/ templateDir[TemplateName].kind # "file"
            \/ templateDir[TemplateName].template = "syntax_error"
    THEN "ValueError: failed to load template"
    ELSE IF templateDir[TemplateName].template = "render_error" THEN "TemplateError"
    ELSE "none"

\* C16: the steps run in the order validate, load template, render, write HTML,
\* derive PDF, each only after the earlier ones succeeded: the error reported is
\* that of the first failing step, a PDF is derived only from a written HTML, and
\* when loading, validation, template loading or rendering fails the output
\* directory is left exactly as it was.
C16_NoPartialSuccess ==
    [][(argv.mode = "single" /\ pc = "main") =>
          /\ FirstFailure # "none" =>
                /\ outputDir' = outputDir
                /\ exit_code' = 1
                /\ result' = NoResult
                /\ stderr' = <<[msg |-> "error", what |-> FirstFailure]>>
          /\ SinglePdfPath \in DOMAIN outputDir' =>
                /\ SingleHtmlPath \in DOMAIN outputDir'
                /\ "html" \in DOMAIN outputDir'[SingleHtmlPath]
                /\ outputDir'[SinglePdfPath] = PdfFile(outputDir'[SingleHtmlPath].html)]_vars

\* Rendering failed and the HTML file of an earlier run is still in place.
C16_Witness ==
    /\ Finished
    /\ InputIsValid
    /\ templateDir = TemplateName :> TemplateFile("render_error")
    /\ environment.write = "ok"
    /\ exit_code = 1
    /\ outputDir = (SingleHtmlPath :> StaleHtml)

====
